---- MODULE Spec2Model ----
(***************************************************************************)
(* A model of the tweet-creation endpoint (hw3/src/app/api/tweets/route.ts) *)
(* and of the tweet-detail page (hw3/src/app/tweet/[tweet_id]/page.tsx),     *)
(* together with the relational store (users, tweets, likes) they talk to.  *)
(***************************************************************************)
EXTENDS Integers, Sequences, FiniteSets

VARIABLES users, tweets, likes, nextTweetId, nextLikeId, storeUp, enforceRefs,
          resp, page

vars == <<users, tweets, likes, nextTweetId, nextLikeId, storeUp, enforceRefs,
          resp, page>>

storeVars ==
  <<users, tweets, likes, nextTweetId, nextLikeId, storeUp, enforceRefs>>

(***************************************************************************)
(* Bounds of the model.                                                    *)
(***************************************************************************)
\* tweets inserted in a run of the endpoint specification
MaxPosts == 2
\* tweets inserted in a run of the navigation specification
MaxNavTweets == 1
\* tweets inserted in a run of the likes specification
MaxLikeTweets == 2
\* tweets inserted in a run of the replies specification
MaxTweets == 4
\* like rows inserted in a run
MaxLikes == 2
\* largest creation timestamp the store hands out
MaxClock == 2
\* longest tweet_id path segment
MaxLen == 2

(***************************************************************************)
(* JSON values. A value is tagged with its JSON type; n is the number      *)
(* itself for a number, and the length for a string (the string of n       *)
(* letters "a"); "absent" is a key the object does not have (undefined).   *)
(***************************************************************************)
Absent == [t |-> "absent", n |-> 0]
JNull == [t |-> "null", n |-> 0]
Num(k) == [t |-> "num", n |-> k]
Str(len) == [t |-> "str", n |-> len]

\* the body of a request: text that is no JSON, a JSON value that is no
\* object, or an object with (some of) the five keys the handler reads
Body(syntax, u, c, ts, te, r) ==
  [syntax |-> syntax, userId |-> u, content |-> c, timestart |-> ts,
   timeend |-> te, replyToTweetId |-> r]
BadJson == Body("bad", Absent, Absent, Absent, Absent, Absent)
NonObject == Body("scalar", Absent, Absent, Absent, Absent, Absent)
Obj(u, c, ts, te, r) == Body("object", u, c, ts, te, r)

(***************************************************************************)
(* route.ts: the input schema.                                             *)
(***************************************************************************)
ContentMin == 1
ContentMax == 280

\* z.number()
zNumber(v) == v.t = "num"
\* z.number().optional()
zNumberOptional(v) == v.t = "absent" \/ zNumber(v)
\* z.string().min(1).max(280)
zContentBug(v) == v.t = "str" /\ v.n >= ContentMin
zContent(v) == v.t = "str" /\ v.n >= ContentMin /\ v.n <= ContentMax
\* z.number().positive().optional()
zPositiveOptional(v) == v.t = "absent" \/ (zNumber(v) /\ v.n > 0)

\* postTweetRequestSchema.parse(data) does not throw
postTweetRequestSchema(data) ==
  /\ data.syntax = "object"
  /\ zNumber(data.userId)
  /\ zContent(data.content)
  /\ zNumberOptional(data.timestart)
  /\ zNumberOptional(data.timeend)
  /\ zPositiveOptional(data.replyToTweetId)

(***************************************************************************)
(* The store. A column left out of an insert takes its default: NULL for   *)
(* the nullable columns, the next serial number for id, now() for          *)
(* createdAt.                                                              *)
(***************************************************************************)
ColumnDefault(v) == IF v.t = "absent" THEN JNull ELSE v

TweetIds == {t.id : t \in tweets}
UserIds == {u.id : u \in users}

\* the references of a tweet row resolve
RefsOk(values) ==
  /\ values.userId \in UserIds
  /\ values.replyToTweetId.t = "num" => values.replyToTweetId.n \in TweetIds

\* why the store refuses an insert; "" when it accepts it
InsertFailure(values) ==
  IF ~storeUp THEN "connection refused"
  ELSE IF enforceRefs /\ ~RefsOk(values) THEN "foreign key violation"
  ELSE ""

\* the row an accepted insert adds
NewRow(values, now) ==
  [id |-> nextTweetId,
   userId |-> values.userId,
   content |-> values.content,
   timestart |-> ColumnDefault(values.timestart),
   timeend |-> ColumnDefault(values.timeend),
   replyToTweetId |-> ColumnDefault(values.replyToTweetId),
   createdAt |-> now]

(***************************************************************************)
(* route.ts: POST.                                                         *)
(***************************************************************************)
NoResponse == [kind |-> "none", status |-> 0, error |-> "", data |-> <<>>]
Threw == [kind |-> "threw", status |-> 0, error |-> "", data |-> <<>>]
Json(status, error, data) ==
  [kind |-> "json", status |-> status, error |-> error, data |-> data]

\* .values({content, userId, timestart, timeend, replyToTweetId})
InsertValuesBug(data) ==
  [content |-> data.content, userId |-> data.userId.n,
   timestart |-> data.timestart, timeend |-> data.timeend,
   replyToTweetId |-> IF data.replyToTweetId.t = "absent" THEN Num(0)
                      ELSE data.replyToTweetId]
InsertValues(data) ==
  [content |-> data.content, userId |-> data.userId.n,
   timestart |-> data.timestart, timeend |-> data.timeend,
   replyToTweetId |-> data.replyToTweetId]

\* the try block around parse(): a schema failure is answered with 400
ValidationResponse(data) == Json(400, "Invalid request", <<>>)

\* the catch block around the insert
InsertFailedResponse(cause) == Json(500, "Something went wrong", <<>>)

\* the handler, for one request body, with the store's clock at now
POST(body, now) ==
  /\ page' = page
  /\ UNCHANGED <<users, likes, nextLikeId, storeUp, enforceRefs>>
  /\ IF body.syntax = "bad"
     THEN \* request.json() rejects, outside of any try block
          /\ resp' = [req |-> body, res |-> Threw]
          /\ UNCHANGED <<tweets, nextTweetId>>
     ELSE IF ~postTweetRequestSchema(body)
     THEN /\ resp' = [req |-> body, res |-> ValidationResponse(body)]
          /\ UNCHANGED <<tweets, nextTweetId>>
     ELSE LET values == InsertValues(body)
              cause == InsertFailure(values)
          IN IF cause # ""
             THEN /\ resp' = [req |-> body, res |-> InsertFailedResponse(cause)]
                  /\ UNCHANGED <<tweets, nextTweetId>>
             ELSE /\ tweets' = tweets \cup {NewRow(values, now)}
                  /\ nextTweetId' = nextTweetId + 1
                  /\ resp' = [req |-> body,
                              res |-> Json(200, "", <<nextTweetId>>)]

\* the store becomes unreachable, or reachable again
Outage ==
  /\ storeUp' = ~storeUp
  /\ UNCHANGED <<users, tweets, likes, nextTweetId, nextLikeId, enforceRefs,
                 resp, page>>

(***************************************************************************)
(* page.tsx: the tweet_id path segment. A segment is a sequence of         *)
(* characters; parseInt skips leading blanks, takes an optional sign and   *)
(* an optional 0x prefix, and reads the longest run of digits that         *)
(* follows; with no digit to read the result is NaN.                       *)
(***************************************************************************)
NaN == [nan |-> TRUE, val |-> 0]
Number(k) == [nan |-> FALSE, val |-> k]

DigitVal(c) ==
  CASE c = "0" -> 0 [] c = "1" -> 1 [] c = "2" -> 2 [] c = "a" -> 10
    [] OTHER -> 99

RECURSIVE StripBlanks(_)
StripBlanks(s) ==
  IF s # <<>> /\ Head(s) = " " THEN StripBlanks(Tail(s)) ELSE s

\* the digits of s in the radix, read from the left; acc is the value read
\* so far and seen tells whether a digit was read
RECURSIVE ReadDigits(_, _, _, _)
ReadDigits(s, radix, acc, seen) ==
  IF s # <<>> /\ DigitVal(Head(s)) < radix
  THEN ReadDigits(Tail(s), radix, acc * radix + DigitVal(Head(s)), TRUE)
  ELSE IF seen THEN Number(acc) ELSE NaN

Negate(r) == IF r.nan THEN r ELSE Number(0 - r.val)

parseIntUnsigned(s) ==
  IF Len(s) >= 2 /\ s[1] = "0" /\ s[2] = "x"
  THEN ReadDigits(Tail(Tail(s)), 16, 0, FALSE)
  ELSE ReadDigits(s, 10, 0, FALSE)

parseInt(str) ==
  LET s == StripBlanks(str)
  IN IF s # <<>> /\ Head(s) = "-" THEN Negate(parseIntUnsigned(Tail(s)))
     ELSE IF s # <<>> /\ Head(s) = "+" THEN parseIntUnsigned(Tail(s))
     ELSE parseIntUnsigned(s)

isNaN(r) == r.nan

(***************************************************************************)
(* page.tsx: TweetPage. One request is in flight at a time; pc is the      *)
(* query it is about to issue, or how it ended. reads is the log of the    *)
(* queries it issued; likeSeq2 and likeSeq3 record the serial number of    *)
(* the next like row when queries (2) and (3) ran.                         *)
(***************************************************************************)
Fresh(pc, tweet_id, username, userid, num) ==
  [pc |-> pc, tweet_id |-> tweet_id, username |-> username, userid |-> userid,
   tweet_id_num |-> num, tweetData |-> <<>>, likes |-> {}, liked |-> <<>>,
   user |-> <<>>, tweet |-> <<>>, replies |-> <<>>, reads |-> <<>>,
   redirect |-> <<>>, likeSeq2 |-> 0, likeSeq3 |-> 0]

Finished == {"idle", "rendered", "redirected", "threw"}

\* errorRedirect: params.toString() of the URLSearchParams, behind "/?"
errorRedirectBug(username) ==
  [pathname |-> "/", query |-> << <<"username", username>> >>]
errorRedirect(username) ==
  [pathname |-> "/",
   query |-> IF username # "" THEN << <<"username", username>> >> ELSE <<>>]

\* redirect() throws: the request ends here
Redirected(p) ==
  [p EXCEPT !.pc = "redirected", !.redirect = <<errorRedirect(p.username)>>]

\* lines 30-46: the request arrives and its tweet_id is parsed
TweetPage(tweet_id, username, userid) ==
  /\ page.pc \in Finished
  /\ LET num == parseInt(tweet_id)
     IN page' = IF isNaN(num)
                THEN Redirected(Fresh("q1", tweet_id, username, userid, num))
                ELSE Fresh("q1", tweet_id, username, userid, num)
  /\ UNCHANGED <<storeVars, resp>>

\* the rows of a set, as the array a query returns them in some order
RECURSIVE Arrays(_)
Arrays(S) ==
  IF S = {} THEN {<<>>}
  ELSE UNION {{<<x>> \o a : a \in Arrays(S \ {x})} : x \in S}

\* const [x] = rows: the first row, or undefined (the empty sequence here)
First(rows) == IF rows = <<>> THEN <<>> ELSE <<rows[1]>>

\* lines 64-83: (1) the root tweet by id
tweetDataQueryBug(num) == {t \in tweets : TRUE}
tweetDataQuery(num) == {t \in tweets : t.id = num}

Q1 ==
  /\ page.pc = "q1"
  /\ \E rows \in Arrays(tweetDataQuery(page.tweet_id_num.val)) :
       LET p == [page EXCEPT !.reads = Append(@, "tweet"),
                             !.tweetData = First(rows)]
       IN page' = IF p.tweetData = <<>> THEN Redirected(p)
                  ELSE [p EXCEPT !.pc = "q2"]
  /\ UNCHANGED <<storeVars, resp>>

\* lines 94-102: (2) the like rows of the tweet
likesQueryBug(num) == {l.id : l \in likes}
likesQuery(num) == {l.id : l \in {k \in likes : k.tweetId = num}}

Q2 ==
  /\ page.pc = "q2"
  /\ page' = [page EXCEPT !.pc = "q3", !.reads = Append(@, "likes"),
                          !.likes = likesQuery(page.tweet_id_num.val),
                          !.likeSeq2 = nextLikeId]
  /\ UNCHANGED <<storeVars, resp>>

\* lines 104-115: (3) the viewer's like row; the first row of the result
likedQueryBug(num, userid) == {l.id : l \in {k \in likes : k.userId = userid}}
likedQuery(num, userid) ==
  {l.id : l \in {k \in likes : k.tweetId = num /\ k.userId = userid}}

Q3 ==
  /\ page.pc = "q3"
  /\ \E rows \in Arrays(likedQuery(page.tweet_id_num.val, page.userid)) :
       page' = [page EXCEPT !.pc = "q4", !.reads = Append(@, "liked"),
                            !.liked = First(rows),
                            !.likeSeq3 = nextLikeId]
  /\ UNCHANGED <<storeVars, resp>>

\* lines 126-136: the view model of the root tweet
TweetView(tweetData, user, numLikes, liked) ==
  [id |-> tweetData.id, content |-> tweetData.content,
   timestart |-> tweetData.timestart, timeend |-> tweetData.timeend,
   username |-> user.displayName, userid |-> user.id,
   likes |-> numLikes, createdAt |-> tweetData.createdAt,
   liked |-> liked # <<>>]

\* lines 117-136: (4) the author row; user.displayName throws a TypeError
\* when no row came back
userQuery(id) == {u \in users : u.id = id}

Q4 ==
  /\ page.pc = "q4"
  /\ \E rows \in Arrays(userQuery(page.tweetData[1].userId)) :
       LET p == [page EXCEPT !.reads = Append(@, "user"),
                             !.user = First(rows)]
       IN page' = IF p.user = <<>> THEN [p EXCEPT !.pc = "threw"]
                  ELSE [p EXCEPT !.pc = "q5",
                                 !.tweet = <<TweetView(p.tweetData[1], p.user[1],
                                                       Cardinality(p.likes),
                                                       p.liked)>>]
  /\ UNCHANGED <<storeVars, resp>>

\* lines 140-148: likesSubquery, the like rows counted per tweet
likesSubquery ==
  {[tweetId |-> t, likes |-> Num(Cardinality({l \in likes : l.tweetId = t}))] :
     t \in {l.tweetId : l \in likes}}

\* lines 150-158: likedSubquery, one row per like row of the viewer (row
\* is the like row it comes from)
JTrue == [t |-> "bool", n |-> 1]
likedSubquery(userid) ==
  {[row |-> l.id, tweetId |-> l.tweetId, liked |-> JTrue] :
     l \in {k \in likes : k.userId = userid}}

\* a left join: the matching rows of the right side, or one row of NULLs
LeftJoin(matching, nulls) == IF matching = {} THEN {nulls} ELSE matching

\* lines 160-178 without the ORDER BY: the rows of the join, each with the
\* rows of the two subqueries it was joined with
repliesJoin(num, userid) ==
  UNION {
    {[t |-> t, u |-> u, lc |-> lc, ld |-> ld] :
       lc \in LeftJoin({x \in likesSubquery : x.tweetId = t.id},
                       [tweetId |-> 0, likes |-> JNull]),
       ld \in LeftJoin({x \in likedSubquery(userid) : x.tweetId = t.id},
                       [row |-> 0, tweetId |-> 0, liked |-> JNull])} :
    <<t, u>> \in {tu \in {x \in tweets : x.replyToTweetId = Num(num)} \X users :
                    tu[1].userId = tu[2].id}}

\* the columns the query selects
ReplyRow(j) ==
  [id |-> j.t.id, content |-> j.t.content,
   replyToTweetId |-> j.t.replyToTweetId,
   username |-> j.u.displayName, userid |-> j.u.id,
   likes |-> j.lc.likes, createdAt |-> j.t.createdAt, liked |-> j.ld.liked]

\* ORDER BY created_at ASC
orderByBug(rows) == TRUE
orderBy(rows) ==
  \A i \in 1..Len(rows) : \A j \in 1..Len(rows) :
    i < j => rows[i].t.createdAt <= rows[j].t.createdAt

\* the arrays the replies query may return: the rows of the join in an
\* order the ORDER BY allows (rows of equal createdAt come in any order)
replies(num, userid) ==
  {[i \in 1..Len(rows) |-> ReplyRow(rows[i])] :
     rows \in {a \in Arrays(repliesJoin(num, userid)) : orderBy(a)}}

\* lines 160-178: (5) the replies, after which the page is rendered
Q5 ==
  /\ page.pc = "q5"
  /\ \E rows \in replies(page.tweet_id_num.val, page.userid) :
       page' = [page EXCEPT !.pc = "rendered", !.reads = Append(@, "replies"),
                            !.replies = rows]
  /\ UNCHANGED <<storeVars, resp>>

(***************************************************************************)
(* The like-creating write path: one like row per request, with no         *)
(* uniqueness over (user, tweet).                                          *)
(***************************************************************************)
LikeTweet(userId, tweetId) ==
  /\ storeUp
  /\ likes' = likes \cup {[id |-> nextLikeId, tweetId |-> tweetId,
                            userId |-> userId]}
  /\ nextLikeId' = nextLikeId + 1
  /\ UNCHANGED <<users, tweets, nextTweetId, storeUp, enforceRefs, resp, page>>

(***************************************************************************)
(* The states after construction: two users, no tweets, no likes, a store  *)
(* that does or does not enforce its references.                           *)
(***************************************************************************)
Idle == Fresh("idle", <<>>, "", 0, NaN)

Init ==
  /\ users = {[id |-> 1, displayName |-> "amy"], [id |-> 2, displayName |-> "bob"]}
  /\ tweets = {}
  /\ likes = {}
  /\ nextTweetId = 1
  /\ nextLikeId = 1
  /\ storeUp = TRUE
  /\ enforceRefs \in BOOLEAN
  /\ resp = [req |-> BadJson, res |-> NoResponse]
  /\ page = Idle

(***************************************************************************)
(* The endpoint specification: requests with every kind of body.           *)
(***************************************************************************)
ValidBodies ==
  {Obj(Num(u), Str(c), ts, te, r) :
     u \in {1, 9}, c \in {ContentMin, ContentMax},
     ts \in {Absent, Num(5)}, te \in {Absent, Num(6)}, r \in {Absent, Num(1)}}

InvalidBodies ==
  {NonObject}
  \cup {Obj(u, Str(1), Absent, Absent, Absent) : u \in {Absent, Str(1), JNull}}
  \cup {Obj(Num(1), c, Absent, Absent, Absent) :
          c \in {Absent, Str(ContentMin - 1), Str(ContentMax + 1), Num(1), JNull}}
  \cup {Obj(Num(1), Str(1), ts, Absent, Absent) : ts \in {Str(1), JNull}}
  \cup {Obj(Num(1), Str(1), Absent, te, Absent) : te \in {Str(1), JNull}}
  \cup {Obj(Num(1), Str(1), Absent, Absent, r) :
          r \in {Num(0), Num(-1), Str(1), JNull}}

Bodies == {BadJson} \cup InvalidBodies \cup ValidBodies

PostAny == nextTweetId <= MaxPosts /\ \E body \in Bodies : POST(body, 0)

NextPost == PostAny \/ Outage

SpecPost == Init /\ [][NextPost]_vars

(***************************************************************************)
(* The navigation specification: requests for every short path segment,   *)
(* against a store of few tweets.                                          *)
(***************************************************************************)
Alphabet == {"0", "1", "a", "x", "-", " "}

RECURSIVE Segments(_)
Segments(n) ==
  IF n = 0 THEN {<<>>}
  ELSE Segments(n - 1)
         \cup {Append(s, c) : s \in {x \in Segments(n - 1) : Len(x) = n - 1},
                              c \in Alphabet}

Usernames == {"", "amy"}

Author(u) == Obj(Num(u), Str(1), Absent, Absent, Absent)
Reply(u, to) == Obj(Num(u), Str(1), Absent, Absent, Num(to))

PostNav ==
  /\ nextTweetId <= MaxNavTweets
  /\ \E u \in {1, 9} : POST(Author(u), 0)

VisitNav ==
  \E tweet_id \in Segments(MaxLen), username \in Usernames :
    TweetPage(tweet_id, username, 1)

Queries == Q1 \/ Q2 \/ Q3 \/ Q4 \/ Q5

NextNav == PostNav \/ VisitNav \/ Queries

SpecNav == Init /\ [][NextNav]_vars

(***************************************************************************)
(* The likes specification: requests for tweet 1 by a viewer who is a user *)
(* and by one who is not, while likes are being created.                   *)
(***************************************************************************)
Viewers == {1, 9}

PostRoot ==
  /\ nextTweetId <= MaxLikeTweets
  /\ POST(Author(1), 0)

VisitReplies == TweetPage(<<"1">>, "amy", 1)

LikeAny ==
  /\ nextLikeId <= MaxLikes
  /\ \E u \in UserIds, t \in TweetIds : LikeTweet(u, t)

VisitRoot == \E userid \in Viewers : TweetPage(<<"1">>, "amy", userid)

NextLikes == PostRoot \/ LikeAny \/ VisitRoot \/ Queries

SpecLikes == Init /\ [][NextLikes]_vars

(***************************************************************************)
(* The replies specification: requests for tweet 1 against a store of      *)
(* tweets, replies and likes.                                              *)
(***************************************************************************)
\* tweet 1 has been posted by user 1
InitReplies ==
  /\ users = {[id |-> 1, displayName |-> "amy"], [id |-> 2, displayName |-> "bob"]}
  /\ tweets = {[id |-> 1, userId |-> 1, content |-> Str(1), timestart |-> JNull,
                timeend |-> JNull, replyToTweetId |-> JNull, createdAt |-> 0]}
  /\ likes = {}
  /\ nextTweetId = 2
  /\ nextLikeId = 1
  /\ storeUp = TRUE
  /\ enforceRefs \in BOOLEAN
  /\ resp = [req |-> Author(1), res |-> Json(200, "", <<1>>)]
  /\ page = Idle

\* a tweet that is no reply, or a reply to tweet 1 by a user or by an
\* author the users table does not hold, at some time of the store's clock
PostReply ==
  /\ nextTweetId <= MaxTweets
  /\ \/ POST(Author(1), 0)
     \/ \E u \in {1, 9}, now \in 0..MaxClock : POST(Reply(u, 1), now)

NextReplies == PostReply \/ LikeAny \/ VisitReplies \/ Queries

SpecReplies == InitReplies /\ [][NextReplies]_vars

(***************************************************************************)
(* Claims about the endpoint, checked under SpecPost. A step is the         *)
(* handling of a request exactly when it is POST of the body the exchange  *)
(* record resp holds after it.                                             *)
(***************************************************************************)
\* a parsed JSON payload that fails the schema, in the words of claim C1:
\* no object at all, a missing or wrong-typed userId or content, content of
\* length 0 or of length 281 or more, a wrong-typed optional field, or a
\* replyToTweetId that is not positive
C1_FailsSchema(body) ==
  /\ body.syntax # "bad"
  /\ \/ body.syntax # "object"
     \/ body.userId.t # "num"
     \/ body.content.t # "str"
     \/ body.content.n = 0
     \/ body.content.n >= 281
     \/ body.timestart.t \notin {"absent", "num"}
     \/ body.timeend.t \notin {"absent", "num"}
     \/ body.replyToTweetId.t \notin {"absent", "num"}
     \/ (body.replyToTweetId.t = "num" /\ body.replyToTweetId.n <= 0)

\* C1: a request whose JSON payload fails the input schema is answered with
\* status 400 and an error body, and the tweets collection (and the serial
\* number of the next tweet) is the same after the request as before it.
C1_InvalidPayloadRejected ==
  [][LET body == resp'.req IN
       (C1_FailsSchema(body) /\ POST(body, 0)) =>
         /\ resp'.res.kind = "json"
         /\ resp'.res.status = 400
         /\ resp'.res.error # ""
         /\ resp'.res.data = <<>>
         /\ tweets' = tweets
         /\ nextTweetId' = nextTweetId]_vars

\* C1 witness: a payload with content of length 281 was answered with 400
\* while the collection already held a tweet
C1_Witness ==
  /\ resp.req.syntax = "object"
  /\ resp.req.content = Str(281)
  /\ resp.res.status = 400
  /\ tweets # {}

\* a payload that passes the schema, in the words of the specification (4.3)
C2_Valid(body) ==
  /\ body.syntax = "object"
  /\ body.userId.t = "num"
  /\ body.content.t = "str" /\ body.content.n >= 1 /\ body.content.n <= 280
  /\ body.timestart.t \in {"absent", "num"}
  /\ body.timeend.t \in {"absent", "num"}
  /\ \/ body.replyToTweetId.t = "absent"
     \/ (body.replyToTweetId.t = "num" /\ body.replyToTweetId.n > 0)

\* the value a row holds for an optional field of the payload
C2_Stored(v) == IF v.t = "absent" THEN JNull ELSE v

\* the request was answered 200 with one fresh positive identifier, and
\* exactly one row carrying the payload's fields was inserted
C2_Created(body) ==
  /\ resp'.res.kind = "json" /\ resp'.res.status = 200
  /\ Len(resp'.res.data) = 1
  /\ LET id == resp'.res.data[1]
     IN /\ id > 0
        /\ id \notin TweetIds
        /\ Cardinality(tweets') = Cardinality(tweets) + 1
        /\ tweets \subseteq tweets'
        /\ \E row \in tweets' \ tweets :
             /\ row.id = id
             /\ row.userId = body.userId.n
             /\ row.content = body.content
             /\ row.timestart = C2_Stored(body.timestart)
             /\ row.timeend = C2_Stored(body.timeend)
             /\ row.replyToTweetId = C2_Stored(body.replyToTweetId)

\* the store is reachable and the row's references do not violate a
\* constraint the store enforces
C2_Accepted(body) ==
  /\ storeUp
  /\ enforceRefs =>
       /\ body.userId.n \in UserIds
       /\ body.replyToTweetId.t = "num" => body.replyToTweetId.n \in TweetIds

\* C2 as stated: every schema-valid request against an available store
\* returns 200 with a fresh positive identifier and inserts exactly one row
\* carrying the supplied fields.
C2_Original ==
  [][LET body == resp'.req IN
       (C2_Valid(body) /\ storeUp /\ POST(body, 0)) => C2_Created(body)]_vars

\* C2 amended: every schema-valid request whose insert the store accepts
\* returns 200 with one fresh positive identifier and inserts exactly one row
\* carrying the supplied fields (omitted optional fields stay NULL); a
\* schema-valid request whose insert the store refuses returns 500 and
\* inserts nothing.
C2_ValidPayloadCreates ==
  [][LET body == resp'.req IN
       (C2_Valid(body) /\ POST(body, 0)) =>
         IF C2_Accepted(body)
         THEN C2_Created(body)
         ELSE /\ resp'.res.status = 500
              /\ tweets' = tweets]_vars

\* C2 witness: the same payload, with its optional fields omitted, was
\* accepted twice and is held in two rows with two identifiers
C2_Witness ==
  /\ resp.res.status = 200
  /\ resp.req.timestart = Absent
  /\ \E a \in tweets : \E b \in tweets :
       /\ a.id # b.id
       /\ [a EXCEPT !.id = 0] = [b EXCEPT !.id = 0]
       /\ a.timestart = JNull
       /\ resp.res.data = <<b.id>>

\* C7 as stated: every request, whatever its body, is answered with exactly
\* one of the three documented responses: 200 with the new identifier
\* exactly when the payload is valid and the insert succeeded, 400 with an
\* error string exactly when the input is invalid (not parsable included),
\* 500 with the fixed error string exactly when the insert failed; no
\* exception escapes the handler.
C7_Original ==
  [][LET body == resp'.req IN
       POST(body, 0) =>
         /\ resp'.res.kind = "json"
         /\ resp'.res.status \in {200, 400, 500}
         /\ resp'.res.status = 200 <=> (C2_Valid(body) /\ C2_Accepted(body))
         /\ resp'.res.status = 400 <=> ~C2_Valid(body)
         /\ resp'.res.status = 500 <=> (C2_Valid(body) /\ ~C2_Accepted(body))
         /\ resp'.res.status = 200 => Len(resp'.res.data) = 1
         /\ resp'.res.status = 500 => resp'.res.error = "Something went wrong"
         /\ resp'.res.status = 400 => resp'.res.error # ""]_vars

(***************************************************************************)
(* Claims about the page's error paths, checked under SpecNav.             *)
(***************************************************************************)
\* the tweet rows and author rows the request's tweet_id resolves to
C3_Tweet == {t \in tweets : t.id = page.tweet_id_num.val}
C3_Author == {u \in users : \E t \in C3_Tweet : u.id = t.userId}

\* C3 as stated: a request whose numeric tweet_id resolves to no tweet row,
\* or whose tweet row's userId resolves to no user row, ends in a redirect
\* to the root path: no view is rendered and nothing is thrown.
C3_Original ==
  (/\ page.pc # "idle"
   /\ ~page.tweet_id_num.nan
   /\ (C3_Tweet = {} \/ C3_Author = {}))
  => /\ page.pc \notin {"rendered", "threw"}
     /\ page.tweet = <<>>
     /\ page.pc \in Finished =>
          /\ page.pc = "redirected"
          /\ Len(page.redirect) = 1
          /\ page.redirect[1].pathname = "/"

\* a segment that is not wholly the decimal text of an integer
C4_Decimal == {"0", "1", "2"}
C4_WhollyDecimal(s) ==
  LET d == IF s # <<>> /\ s[1] = "-" THEN Tail(s) ELSE s
  IN d # <<>> /\ \A i \in 1..Len(d) : d[i] \in C4_Decimal

\* the redirect target the claim describes
C4_Target(username) ==
  [pathname |-> "/",
   query |-> IF username = "" THEN <<>> ELSE << <<"username", username>> >>]

\* C4 as stated: a request whose tweet_id is not wholly the decimal text of
\* an integer is redirected to the root path, with the username parameter
\* exactly when a non-empty username was supplied, and is never rendered.
C4_Original ==
  (~C4_WhollyDecimal(page.tweet_id) /\ page.pc \in {"rendered", "redirected"})
  => /\ page.pc = "redirected"
     /\ page.redirect = <<C4_Target(page.username)>>

\* a segment parseInt reads no number from: after its leading blanks and an
\* optional sign it starts with no decimal digit, or with 0x and no
\* hexadecimal digit behind it
C4_Blanks(s) == CHOOSE k \in 0..Len(s) :
  /\ \A i \in 1..k : s[i] = " "
  /\ k < Len(s) => s[k + 1] # " "
C4_Unsigned(s) ==
  LET r == SubSeq(s, C4_Blanks(s) + 1, Len(s))
  IN IF r # <<>> /\ r[1] \in {"-", "+"} THEN Tail(r) ELSE r
C4_NoNumber(s) ==
  LET r == C4_Unsigned(s)
  IN \/ r = <<>>
     \/ r[1] \notin C4_Decimal
     \/ /\ Len(r) >= 2 /\ r[1] = "0" /\ r[2] = "x"
        /\ (Len(r) = 2 \/ r[3] \notin C4_Decimal \cup {"a"})

\* C4 amended: a request whose tweet_id parseInt reads no number from is
\* redirected to the root path before any read, with the username parameter
\* exactly when a non-empty username was supplied, and is never rendered;
\* every other tweet_id (such as "1a") is taken as the number it starts with.
C4_NonNumericRedirects ==
  page.pc # "idle" =>
    IF C4_NoNumber(page.tweet_id)
    THEN /\ page.pc = "redirected"
         /\ page.redirect = <<C4_Target(page.username)>>
         /\ page.tweet = <<>>
    ELSE ~page.tweet_id_num.nan

\* C4 witness: the segment "a1" with a username was redirected while the
\* store held a tweet
C4_Witness ==
  /\ page.pc = "redirected"
  /\ page.tweet_id = <<"a", "1">>
  /\ page.username = "amy"
  /\ tweets # {}

\* the five reads of a request, in their order
C8_Order == <<"tweet", "likes", "liked", "user", "replies">>

C5_LikesOf(rows, t) == {l \in rows : l.tweetId = t}
C5_LikedBy(rows, t, v) == {l \in rows : l.tweetId = t /\ l.userId = v}

\* the view of a rendered page whose reads no like was committed after
\* shows the store's like count and whether the viewer has liked
C5_View ==
  (page.pc = "rendered" /\ nextLikeId = page.likeSeq2) =>
    /\ page.tweet[1].likes
         = Cardinality(C5_LikesOf(likes, page.tweet_id_num.val))
    /\ page.tweet[1].liked
         = (C5_LikedBy(likes, page.tweet_id_num.val, page.userid) # {})

\* C5: a read of an existing tweet with no concurrent write yields likeCount
\* equal to the number of like rows of the tweet and viewerHasLiked true
\* exactly when a like row of the viewer for the tweet exists (so 0 and
\* false for a tweet with no likes); the read changes no users, tweets or
\* likes row.
C5_ReadShowsLikes ==
  [][/\ page' # page => UNCHANGED <<users, tweets, likes>>
     /\ C5_View']_vars

\* C5 witness: tweet 1 was rendered with one like, the viewer's, while
\* another tweet holds a like too
C5_Witness ==
  /\ page.pc = "rendered"
  /\ nextLikeId = page.likeSeq2
  /\ page.tweet[1].likes = 1
  /\ page.tweet[1].liked
  /\ \E l \in likes : l.tweetId # page.tweet_id_num.val

\* C10 as stated: in every view model of the root tweet, viewerHasLiked
\* implies likeCount >= 1, whatever likes commit between the page's reads.
C10_Original ==
  page.tweet # <<>> => (page.tweet[1].liked => page.tweet[1].likes >= 1)

\* the like rows the store held when the next like row was number seq
C10_Before(seq) == {l \in likes : l.id < seq}

\* C10 amended: likeCount is the number of like rows of the tweet in the
\* store state of read (2), and viewerHasLiked tells whether the store
\* state of read (3) holds a like row of the viewer for the tweet;
\* viewerHasLiked implies likeCount >= 1 when no like row was committed
\* between the two reads.
C10_LikesOfTwoReads ==
  page.tweet # <<>> =>
    /\ page.tweet[1].likes
         = Cardinality(C5_LikesOf(C10_Before(page.likeSeq2),
                                  page.tweet_id_num.val))
    /\ page.tweet[1].liked
         = (C5_LikedBy(C10_Before(page.likeSeq3), page.tweet_id_num.val,
                       page.userid) # {})
    /\ page.likeSeq2 = page.likeSeq3 =>
         (page.tweet[1].liked => page.tweet[1].likes >= 1)

\* C10 witness: a view of a liked tweet whose two reads saw one store
\* state, with a like committed later in the request
C10_Witness ==
  /\ page.pc = "rendered"
  /\ page.tweet[1].liked
  /\ page.tweet[1].likes = 1
  /\ page.likeSeq2 = page.likeSeq3
  /\ nextLikeId > page.likeSeq3

(***************************************************************************)
(* Claims about the replies, checked under SpecReplies.                    *)
(***************************************************************************)
\* C6: the replies of a rendered page are tweets of the store whose parent
\* is the requested tweet, in ascending order of creation time.
C6_RepliesOrdered ==
  page.pc = "rendered" =>
    /\ \A i \in 1..Len(page.replies) :
         /\ page.replies[i].replyToTweetId = Num(page.tweet_id_num.val)
         /\ \E t \in tweets :
              /\ t.id = page.replies[i].id
              /\ t.replyToTweetId = Num(page.tweet_id_num.val)
              /\ t.createdAt = page.replies[i].createdAt
    /\ \A i \in 1..Len(page.replies) : \A j \in 1..Len(page.replies) :
         i < j => page.replies[i].createdAt <= page.replies[j].createdAt

\* C6 witness: three replies created at three different times, the one
\* inserted last created first
C6_Witness ==
  /\ page.pc = "rendered"
  /\ Len(page.replies) = 3
  /\ page.replies[1].createdAt < page.replies[2].createdAt
  /\ page.replies[2].createdAt < page.replies[3].createdAt
  /\ page.replies[1].id > page.replies[3].id

\* C9 as stated: each direct reply of the tweet whose author exists appears
\* exactly once in the replies of the page, whatever like rows exist; a
\* reply with no likes has a zero or absent like count and a flag that is
\* not truthy.
C9_Original ==
  [][(page.pc = "q5" /\ page'.pc = "rendered") =>
       \A r \in {t \in tweets : /\ t.replyToTweetId = Num(page.tweet_id_num.val)
                                /\ t.userId \in UserIds} :
         /\ Cardinality({i \in 1..Len(page'.replies) :
                           page'.replies[i].id = r.id}) = 1
         /\ C5_LikesOf(likes, r.id) = {} =>
              \A i \in 1..Len(page'.replies) :
                page'.replies[i].id = r.id =>
                  /\ page'.replies[i].likes \in {JNull, Num(0)}
                  /\ page'.replies[i].liked # JTrue]_vars

====
